---- MODULE Spec2Model ----
(***************************************************************************)
(* Model of the vegetable storage engine: models/vegetable.py,             *)
(* models/storage_bin.py and models/storage_system.py.                     *)
(*                                                                         *)
(* A Vegetable is a record [name, quantity, expiry_date]; the fields temp,  *)
(* humidity and added_date are never read by the engine and are left out.  *)
(* Every call builds a new Vegetable object, so an object is held by one   *)
(* list position of one bin and its position is its identity.              *)
(* Dates are day numbers; `today` is datetime.now().date().                *)
(*                                                                         *)
(* A StorageBin has the attributes of StorageBin.__init__ plus the         *)
(* attribute `vegetables`, which _auto_sort_bin_by_expiration assigns and  *)
(* no code reads: only whether it has been assigned is kept ("unset" or    *)
(* "sorted_copy"), not the list it holds.                                  *)
(*                                                                         *)
(* `users_file` is the credential store of auth/user_manager.py: the       *)
(* contents of USER_DATA_FILE, which the engine never touches.             *)
(***************************************************************************)
EXTENDS Integers, Sequences, FiniteSets, TLC

VARIABLES bins, today, last, users_file

vars == <<bins, today, last, users_file>>

\* ---------------------------------------------------------------- bounds
MaxRecords == 2
MaxDay == 1
MaxSortLen == 4
MaxNameLen == 4

\* --------------------------------------------------------- input domains
\* create_bin is called with the ids of NewBinIds, every other operation with
\* the ids of BinIds, so that "B" stays an unknown bin id
NewBinIds == {"A"}
BinIds == {"A", "B"}
Capacities == {-1, 3}
Temps == {15, 16}
Humidities == {98, 99}
Names == {"Tomato", "tomato"}
QueryNames == {"Tomato", "tomato", "Carrot"}
Quantities == {-1, 1, 3}
TakeQuantities == {-1, 0, 1, 2, 3}
ExpiryDates == {1, 2}

\* ------------------------------------------------------------- constants
MAX_SAFE_TEMP == 15
MAX_SAFE_HUMIDITY == 98

\* str.lower() on the names in use
Lower(s) ==
    CASE s = "Tomato" -> "tomato"
      [] s = "tomato" -> "tomato"
      [] s = "Carrot" -> "carrot"
      [] OTHER -> s

Min(a, b) == IF a <= b THEN a ELSE b

\* titles handed to _show_message_box
T_ERROR == "Error"
T_FULL == "Storage Bin Full"
T_SAFETY == "Storage Safety Alert"
T_REMOVED == "Expired Vegetables Removed"
T_CRITICAL == "CRITICAL: Vegetables Expiring TODAY!"
T_ADVISORY == "FIFO Advisory: Vegetables Expiring Soon"
T_MULTIPLE == "Multiple Safety Violations"

\* an optional argument: None, or a supplied value
None == <<>>
Some(v) == <<v>>
Optional(S) == {None} \cup {Some(v) : v \in S}

\* attribute access on an object held as a record: reading an attribute the
\* object does not have raises AttributeError, assigning one creates it
HasAttr(obj, attr) == attr \in DOMAIN obj
SetAttr(obj, attr, value) ==
    [a \in DOMAIN obj \cup {attr} |-> IF a = attr THEN value ELSE obj[a]]

\* ------------------------------------------------------------- Vegetable
days_until_expiry(veg) == veg.expiry_date - today

\* ------------------------------------------------------------ StorageBin
StorageBin(max_capacity, current_temperature, current_humidity) ==
    [max_capacity |-> max_capacity,
     current_temperature |-> current_temperature,
     current_humidity |-> current_humidity,
     contents |-> <<>>,
     vegetables |-> "unset"]

\* index of the first stored item with this name (case-sensitive), 0 if none
FirstIndexByName(contents, name) ==
    IF \E i \in 1..Len(contents) : contents[i].name = name
    THEN CHOOSE i \in 1..Len(contents) :
            /\ contents[i].name = name
            /\ \A j \in 1..(i - 1) : contents[j].name # name
    ELSE 0

RemoveAt(s, i) == [k \in 1..(Len(s) - 1) |-> IF k < i THEN s[k] ELSE s[k + 1]]

\* StorageBin.add_vegetable: [ok, contents]
add_vegetable(bin_obj, vegetable) ==
    IF Len(bin_obj.contents) < bin_obj.max_capacity
    THEN [ok |-> TRUE, contents |-> Append(bin_obj.contents, vegetable)]
    ELSE [ok |-> FALSE, contents |-> bin_obj.contents]

\* mutant: the name is compared without regard to case
remove_vegetable_ignoring_case(contents, name) ==
    LET matches == {i \in 1..Len(contents) : Lower(contents[i].name) = Lower(name)}
        i == IF matches = {} THEN 0
             ELSE CHOOSE k \in matches : \A j \in matches : k <= j
    IN  IF i = 0 THEN [ok |-> FALSE, contents |-> contents]
        ELSE [ok |-> TRUE, contents |-> RemoveAt(contents, i)]

\* StorageBin.remove_vegetable: [ok, contents]
remove_vegetable(contents, name) ==
    LET i == FirstIndexByName(contents, name)
    IN  IF i = 0 THEN [ok |-> FALSE, contents |-> contents]
        ELSE [ok |-> TRUE, contents |-> RemoveAt(contents, i)]

get_all_vegetables(bin_obj) == bin_obj.contents

\* --------------------------------------------------------- StorageSystem
\* mutant: the thresholds themselves are refused
_is_environment_safe_strict(temp, humidity) ==
    temp < MAX_SAFE_TEMP /\ humidity < MAX_SAFE_HUMIDITY

\* mutant: the humidity is not tested
_is_environment_safe_temperature_only(temp, humidity) ==
    temp <= MAX_SAFE_TEMP

_is_environment_safe(temp, humidity) ==
    temp <= MAX_SAFE_TEMP /\ humidity <= MAX_SAFE_HUMIDITY

RECURSIVE SumQuantity(_)
SumQuantity(s) == IF s = <<>> THEN 0 ELSE Head(s).quantity + SumQuantity(Tail(s))

\* mutant: capacity counted in item records instead of units
get_current_capacity_by_records(bin_id) ==
    IF bin_id \notin DOMAIN bins THEN 0
    ELSE Len(get_all_vegetables(bins[bin_id]))

get_current_capacity(bin_id) ==
    IF bin_id \notin DOMAIN bins THEN 0
    ELSE SumQuantity(get_all_vegetables(bins[bin_id]))

Reverse(s) == [i \in 1..Len(s) |-> s[Len(s) + 1 - i]]

\* mutant: the items equal to the pivot come out in reverse order
RECURSIVE quicksort_by_expiration_unstable(_)
quicksort_by_expiration_unstable(vegetables) ==
    IF Len(vegetables) <= 1 THEN vegetables
    ELSE LET pivot == vegetables[(Len(vegetables) \div 2) + 1]
             pivot_days == days_until_expiry(pivot)
             left == SelectSeq(vegetables, LAMBDA x : days_until_expiry(x) < pivot_days)
             middle == SelectSeq(vegetables, LAMBDA x : days_until_expiry(x) = pivot_days)
             right == SelectSeq(vegetables, LAMBDA x : days_until_expiry(x) > pivot_days)
         IN  quicksort_by_expiration_unstable(left) \o Reverse(middle)
                \o quicksort_by_expiration_unstable(right)

RECURSIVE quicksort_by_expiration(_)
quicksort_by_expiration(vegetables) ==
    IF Len(vegetables) <= 1 THEN vegetables
    ELSE LET pivot == vegetables[(Len(vegetables) \div 2) + 1]
             pivot_days == days_until_expiry(pivot)
             left == SelectSeq(vegetables, LAMBDA x : days_until_expiry(x) < pivot_days)
             middle == SelectSeq(vegetables, LAMBDA x : days_until_expiry(x) = pivot_days)
             right == SelectSeq(vegetables, LAMBDA x : days_until_expiry(x) > pivot_days)
         IN  quicksort_by_expiration(left) \o middle \o quicksort_by_expiration(right)

\* _auto_sort_bin_by_expiration on one bin object: the sorted list goes to
\* the attribute `vegetables`; the attribute `contents` is not assigned.
_auto_sort_bin_by_expiration(bin_obj) ==
    LET vegetables == get_all_vegetables(bin_obj)
    IN  IF Len(vegetables) <= 1 THEN bin_obj
        \* self.bins[bin_id].vegetables = quicksort_by_expiration(vegetables)
        ELSE [bin_obj EXCEPT !.vegetables = "sorted_copy"]

\* the loop of _auto_remove_expired_vegetables over the copied list `todo`
RECURSIVE SweepLoop(_, _, _)
SweepLoop(todo, contents, removed_list) ==
    IF todo = <<>> THEN [contents |-> contents, removed_list |-> removed_list]
    ELSE LET veg == Head(todo)
         IN  IF days_until_expiry(veg) <= 0
             THEN SweepLoop(Tail(todo),
                            remove_vegetable(contents, veg.name).contents,
                            Append(removed_list,
                                   [name |-> veg.name, quantity |-> veg.quantity]))
             ELSE SweepLoop(Tail(todo), contents, removed_list)

\* _auto_remove_expired_vegetables on a contents list: [contents, removed_list]
_auto_remove_expired_vegetables(contents) == SweepLoop(contents, contents, <<>>)

\* _check_fifo_warnings on one bin object: [bin, alerts, expiring_today]
_check_fifo_warnings(bin_obj) ==
    LET swept == _auto_remove_expired_vegetables(bin_obj.contents)
        removed_items == swept.removed_list
        vegetables == swept.contents
        expiring_today == SelectSeq(vegetables, LAMBDA v : days_until_expiry(v) <= 0)
        expiring_soon == SelectSeq(vegetables,
                            LAMBDA v : days_until_expiry(v) > 0 /\ days_until_expiry(v) <= 2)
    IN  [bin |-> [bin_obj EXCEPT !.contents = vegetables],
         alerts |-> (IF removed_items # <<>> THEN <<T_REMOVED>> ELSE <<>>)
                    \o (IF expiring_today # <<>> THEN <<T_CRITICAL>> ELSE <<>>)
                    \o (IF expiring_soon # <<>> THEN <<T_ADVISORY>> ELSE <<>>),
         removed_list |-> removed_items]

\* the capacity test of add_vegetable_to_bin
would_exceed_capacity(current_capacity, vegetable, bin_obj) ==
    current_capacity + vegetable.quantity > bin_obj.max_capacity

\* mutant: only negative quantities are refused
invalid_quantity_negative_only(quantity_to_take) == quantity_to_take < 0

\* the quantity validation of take_out_vegetable_quantity
invalid_quantity(quantity_to_take) == quantity_to_take <= 0

\* mutant: an order for exactly the stored quantity is a partial withdrawal
takes_whole_item_strict(quantity_to_take, available_quantity) ==
    quantity_to_take > available_quantity

\* the test of take_out_vegetable_quantity for removing the whole record
takes_whole_item(quantity_to_take, available_quantity) ==
    quantity_to_take >= available_quantity

\* Vegetable.__init__ (a new object)
Vegetable(name, quantity, expiry_date) ==
    [name |-> name, quantity |-> quantity, expiry_date |-> expiry_date]

\* what the last call was, what it returned and the titles it handed to
\* _show_message_box, in order
Result(op, ret, alerts) == [op |-> op, ret |-> ret, alerts |-> alerts]

\* the last call did not return: it raised this exception
Raised(op, exception) ==
    [op |-> op, ret |-> "None", alerts |-> <<>>, raised |-> exception]

\* what the alert sink does with a box: MessageBoxW shows it, the platform
\* has no message boxes (MSGBOX_AVAILABLE is False), or MessageBoxW throws
SinkModes == {"delivered", "unavailable", "throws"}

\* mutant: no try/except around MessageBoxW
_show_message_box_unguarded(title, sink) ==
    IF sink = "unavailable" THEN [returned |-> FALSE, raised |-> "None"]
    ELSE IF sink = "throws" THEN [returned |-> FALSE, raised |-> "OSError"]
    ELSE [returned |-> TRUE, raised |-> "None"]

\* _show_message_box: [returned, raised]
_show_message_box(title, sink) ==
    IF sink = "unavailable" THEN [returned |-> FALSE, raised |-> "None"]
    ELSE IF sink = "throws" THEN [returned |-> FALSE, raised |-> "None"]
    ELSE [returned |-> TRUE, raised |-> "None"]

\* what the caller of an operation sees when the operation hands the boxes
\* `alerts` to the sink, in order, and then returns `ret`; no call site reads
\* the value _show_message_box returns, and every box of an operation is
\* shown after the operation's last change of a bin
Outcome(op, ret, alerts, sink) ==
    LET thrown == {i \in 1..Len(alerts) :
                      _show_message_box(alerts[i], sink).raised # "None"}
    IN  IF thrown = {} THEN Result(op, ret, alerts)
        ELSE Raised(op, _show_message_box(
                            alerts[CHOOSE i \in thrown : \A j \in thrown : i <= j],
                            sink).raised)

\* the outcomes of a call over the behaviours of the sink
Results(op, ret, alerts) == {Outcome(op, ret, alerts, sink) : sink \in SinkModes}

\* ----------------------------------------------------------------- Init
Init ==
    /\ bins = <<>>
    /\ today = 0
    /\ last = Result("init", "None", <<>>)
    /\ users_file = None

\* -------------------------------------------------------------- actions
\* mutant: the duplicate check comes before the safety gate
create_bin_duplicate_first(bin_id, max_capacity, temp, humidity) ==
    /\ UNCHANGED <<today, users_file>>
    /\ IF bin_id \in DOMAIN bins
       THEN /\ last' \in Results("create_bin", FALSE, <<T_ERROR>>)
            /\ UNCHANGED bins
       ELSE IF ~_is_environment_safe(temp, humidity)
       THEN /\ last' \in Results("create_bin", FALSE, <<T_SAFETY>>)
            /\ UNCHANGED bins
       ELSE /\ bins' = [b \in DOMAIN bins \cup {bin_id} |->
                          IF b = bin_id THEN StorageBin(max_capacity, temp, humidity)
                          ELSE bins[b]]
            /\ last' \in Results("create_bin", TRUE, <<>>)

\* mutant: no duplicate check, a second create_bin replaces the bin
create_bin_overwrite(bin_id, max_capacity, temp, humidity) ==
    /\ UNCHANGED <<today, users_file>>
    /\ IF ~_is_environment_safe(temp, humidity)
       THEN /\ last' \in Results("create_bin", FALSE, <<T_SAFETY>>)
            /\ UNCHANGED bins
       ELSE /\ bins' = [b \in DOMAIN bins \cup {bin_id} |->
                          IF b = bin_id THEN StorageBin(max_capacity, temp, humidity)
                          ELSE bins[b]]
            /\ last' \in Results("create_bin", TRUE, <<>>)

create_bin(bin_id, max_capacity, temp, humidity) ==
    /\ UNCHANGED <<today, users_file>>
    /\ IF ~_is_environment_safe(temp, humidity)
       THEN /\ last' \in Results("create_bin", FALSE, <<T_SAFETY>>)
            /\ UNCHANGED bins
       ELSE IF bin_id \in DOMAIN bins
       THEN /\ last' \in Results("create_bin", FALSE, <<T_ERROR>>)
            /\ UNCHANGED bins
       ELSE /\ bins' = [b \in DOMAIN bins \cup {bin_id} |->
                          IF b = bin_id THEN StorageBin(max_capacity, temp, humidity)
                          ELSE bins[b]]
            /\ last' \in Results("create_bin", TRUE, <<>>)

\* mutant: no test that the bin is registered, self.bins[bin_id] fails
add_vegetable_to_bin_unguarded(bin_id, vegetable) ==
    /\ UNCHANGED <<today, users_file>>
    /\ IF bin_id \notin DOMAIN bins
       THEN /\ last' = Raised("add_vegetable_to_bin", "KeyError")
            /\ UNCHANGED bins
       ELSE LET bin_obj == bins[bin_id]
                current_capacity == get_current_capacity(bin_id)
            IN  IF would_exceed_capacity(current_capacity, vegetable, bin_obj)
                THEN /\ last' \in Results("add_vegetable_to_bin", FALSE, <<T_FULL>>)
                     /\ UNCHANGED bins
                ELSE LET added == add_vegetable(bin_obj, vegetable)
                         sorted == _auto_sort_bin_by_expiration(
                                       [bin_obj EXCEPT !.contents = added.contents])
                         checked == _check_fifo_warnings(sorted)
                     IN  IF added.ok
                         THEN /\ bins' = [bins EXCEPT ![bin_id] = checked.bin]
                              /\ last' \in Results("add_vegetable_to_bin", TRUE,
                                                checked.alerts)
                         ELSE /\ last' \in Results("add_vegetable_to_bin", FALSE, <<>>)
                              /\ UNCHANGED bins

add_vegetable_to_bin(bin_id, vegetable) ==
    /\ UNCHANGED <<today, users_file>>
    /\ IF bin_id \notin DOMAIN bins
       THEN /\ last' \in Results("add_vegetable_to_bin", FALSE, <<T_ERROR>>)
            /\ UNCHANGED bins
       ELSE LET bin_obj == bins[bin_id]
                current_capacity == get_current_capacity(bin_id)
            IN  IF would_exceed_capacity(current_capacity, vegetable, bin_obj)
                THEN /\ last' \in Results("add_vegetable_to_bin", FALSE, <<T_FULL>>)
                     /\ UNCHANGED bins
                ELSE LET added == add_vegetable(bin_obj, vegetable)
                         sorted == _auto_sort_bin_by_expiration(
                                       [bin_obj EXCEPT !.contents = added.contents])
                         checked == _check_fifo_warnings(sorted)
                     IN  IF added.ok
                         THEN /\ bins' = [bins EXCEPT ![bin_id] = checked.bin]
                              /\ last' \in Results("add_vegetable_to_bin", TRUE,
                                                checked.alerts)
                         ELSE /\ last' \in Results("add_vegetable_to_bin", FALSE, <<>>)
                              /\ UNCHANGED bins

remove_vegetable_from_bin(bin_id, name) ==
    /\ UNCHANGED <<today, users_file>>
    /\ IF bin_id \notin DOMAIN bins
       THEN /\ last' \in Results("remove_vegetable_from_bin", FALSE, <<T_ERROR>>)
            /\ UNCHANGED bins
       ELSE LET bin_obj == bins[bin_id]
                removed == remove_vegetable(bin_obj.contents, name)
                sorted == _auto_sort_bin_by_expiration(
                              [bin_obj EXCEPT !.contents = removed.contents])
                checked == _check_fifo_warnings(sorted)
            IN  IF removed.ok
                THEN /\ bins' = [bins EXCEPT ![bin_id] = checked.bin]
                     /\ last' \in Results("remove_vegetable_from_bin", TRUE,
                                       checked.alerts)
                ELSE /\ last' \in Results("remove_vegetable_from_bin", FALSE,
                                       <<T_ERROR>>)
                     /\ UNCHANGED bins

\* the list with each object tagged by its position, its identity in the bin
WithIdentity(vegetables) ==
    [i \in 1..Len(vegetables) |->
        [pos |-> i, name |-> vegetables[i].name, quantity |-> vegetables[i].quantity,
         expiry_date |-> vegetables[i].expiry_date]]

\* the items of the FIFO-sorted list whose lower-cased name matches, in order;
\* the loop of take_out_vegetable_quantity stops at the first of them
FindTarget(sorted_vegetables, vegetable_name) ==
    SelectSeq(sorted_vegetables, LAMBDA veg : Lower(veg.name) = Lower(vegetable_name))

\* mutant: the quantity is set to the amount taken instead of reduced by it
DecrementObject_assign(s, pos, n) ==
    [i \in 1..Len(s) |-> IF i = pos THEN [s[i] EXCEPT !.quantity = n] ELSE s[i]]

\* target_vegetable.quantity -= n on the object at position pos
DecrementObject(s, pos, n) ==
    [i \in 1..Len(s) |-> IF i = pos THEN [s[i] EXCEPT !.quantity = @ - n] ELSE s[i]]

take_out_vegetable_quantity(bin_id, vegetable_name, quantity_to_take) ==
    /\ UNCHANGED <<today, users_file>>
    /\ IF bin_id \notin DOMAIN bins
       THEN /\ last' \in Results("take_out_vegetable_quantity", 0, <<T_ERROR>>)
            /\ UNCHANGED bins
       ELSE LET bin_obj == bins[bin_id]
                vegetables == get_all_vegetables(bin_obj)
                sorted_vegetables == quicksort_by_expiration(WithIdentity(vegetables))
                found == FindTarget(sorted_vegetables, vegetable_name)
            IN  IF found = <<>>
                THEN /\ last' \in Results("take_out_vegetable_quantity", 0, <<T_ERROR>>)
                     /\ UNCHANGED bins
                ELSE IF invalid_quantity(quantity_to_take)
                THEN /\ last' \in Results("take_out_vegetable_quantity", 0, <<T_ERROR>>)
                     /\ UNCHANGED bins
                ELSE LET target_vegetable == Head(found)
                         available_quantity == target_vegetable.quantity
                         actual_quantity_taken == Min(quantity_to_take, available_quantity)
                     IN  IF takes_whole_item(quantity_to_take, available_quantity)
                         THEN LET removed == remove_vegetable(bin_obj.contents, vegetable_name)
                                  sorted == _auto_sort_bin_by_expiration(
                                                [bin_obj EXCEPT !.contents = removed.contents])
                                  checked == _check_fifo_warnings(sorted)
                              IN  IF removed.ok
                                  THEN /\ bins' = [bins EXCEPT ![bin_id] = checked.bin]
                                       /\ last' \in Results("take_out_vegetable_quantity", actual_quantity_taken, checked.alerts)
                                  ELSE /\ last' \in Results("take_out_vegetable_quantity", 0, <<T_ERROR>>)
                                       /\ UNCHANGED bins
                         ELSE LET reduced ==
                                    [bin_obj EXCEPT
                                       !.contents = DecrementObject(@, target_vegetable.pos,
                                                                    actual_quantity_taken)]
                                  sorted == _auto_sort_bin_by_expiration(reduced)
                                  checked == _check_fifo_warnings(sorted)
                              IN  /\ bins' = [bins EXCEPT ![bin_id] = checked.bin]
                                  /\ last' \in Results("take_out_vegetable_quantity", actual_quantity_taken, checked.alerts)

\* _check_fifo_warnings(bin_id, show_warning=True), as the dashboard calls it
check_fifo_warnings(bin_id) ==
    /\ UNCHANGED <<today, users_file>>
    /\ IF bin_id \notin DOMAIN bins
       THEN /\ last' \in Results("_check_fifo_warnings", "None", <<>>)
            /\ UNCHANGED bins
       ELSE LET checked == _check_fifo_warnings(bins[bin_id])
            IN  /\ bins' = [bins EXCEPT ![bin_id] = checked.bin]
                /\ last' \in Results("_check_fifo_warnings", "None", checked.alerts)

\* _auto_remove_expired_vegetables(bin_id) called on its own
auto_remove_expired_vegetables(bin_id) ==
    /\ UNCHANGED <<today, users_file>>
    /\ IF bin_id \notin DOMAIN bins
       THEN /\ last' \in Results("_auto_remove_expired_vegetables", <<>>, <<>>)
            /\ UNCHANGED bins
       ELSE LET swept == _auto_remove_expired_vegetables(bins[bin_id].contents)
            IN  /\ bins' = [bins EXCEPT ![bin_id].contents = swept.contents]
                /\ last' \in Results("_auto_remove_expired_vegetables", swept.removed_list, <<>>)

\* check_bin_safety reads bin_obj.temperature and bin_obj.humidity, which
\* StorageBin.__init__ does not define
check_bin_safety(bin_id) ==
    /\ UNCHANGED <<bins, today, users_file>>
    /\ IF bin_id \notin DOMAIN bins
       THEN last' \in Results("check_bin_safety", FALSE, <<>>)
       ELSE LET bin_obj == bins[bin_id]
            IN  IF ~HasAttr(bin_obj, "temperature") \/ ~HasAttr(bin_obj, "humidity")
                THEN last' = Raised("check_bin_safety", "AttributeError")
                ELSE IF ~_is_environment_safe(bin_obj.temperature, bin_obj.humidity)
                THEN last' \in Results("check_bin_safety", FALSE, <<T_SAFETY>>)
                ELSE last' \in Results("check_bin_safety", TRUE, <<>>)

update_bin_conditions(bin_id, new_temp, new_humidity) ==
    /\ UNCHANGED <<today, users_file>>
    /\ IF bin_id \notin DOMAIN bins
       THEN /\ last' \in Results("update_bin_conditions", FALSE, <<T_ERROR>>)
            /\ UNCHANGED bins
       ELSE LET bin_obj == bins[bin_id]
            IN  IF ~HasAttr(bin_obj, "temperature") \/ ~HasAttr(bin_obj, "humidity")
                THEN /\ last' = Raised("update_bin_conditions", "AttributeError")
                     /\ UNCHANGED bins
                ELSE LET current_temp == bin_obj.temperature
                         current_humidity == bin_obj.humidity
                         temp_to_check ==
                             IF new_temp # None THEN new_temp[1] ELSE current_temp
                         humidity_to_check ==
                             IF new_humidity # None THEN new_humidity[1]
                             ELSE current_humidity
                         with_temp ==
                             IF new_temp # None
                             THEN SetAttr(bin_obj, "temperature", new_temp[1])
                             ELSE bin_obj
                         with_both ==
                             IF new_humidity # None
                             THEN SetAttr(with_temp, "humidity", new_humidity[1])
                             ELSE with_temp
                     IN  IF ~_is_environment_safe(temp_to_check, humidity_to_check)
                         THEN /\ last' \in Results("update_bin_conditions", FALSE,
                                                <<T_SAFETY>>)
                              /\ UNCHANGED bins
                         ELSE /\ bins' = [bins EXCEPT ![bin_id] = with_both]
                              /\ last' \in Results("update_bin_conditions", TRUE, <<>>)

\* get_all_safety_violations: [raised, violations], the exception raised
\* while reading a bin's attributes or the ids of the bins outside the
\* thresholds
get_all_safety_violations ==
    IF \E b \in DOMAIN bins :
          ~HasAttr(bins[b], "temperature") \/ ~HasAttr(bins[b], "humidity")
    THEN [raised |-> "AttributeError", violations |-> {}]
    ELSE [raised |-> "None",
          violations |-> {b \in DOMAIN bins :
                            ~_is_environment_safe(bins[b].temperature,
                                                  bins[b].humidity)}]

check_all_bins_safety ==
    /\ UNCHANGED <<bins, today, users_file>>
    /\ LET got == get_all_safety_violations
           violations == got.violations
       IN  IF got.raised # "None"
           THEN last' = Raised("check_all_bins_safety", got.raised)
           ELSE IF violations # {}
           THEN last' \in Results("check_all_bins_safety", FALSE,
                               IF Cardinality(violations) > 1 THEN <<T_MULTIPLE>>
                               ELSE <<T_SAFETY>>)
           ELSE last' \in Results("check_all_bins_safety", TRUE, <<>>)

\* get_bin_status: Some(the status dictionary), or None for an unknown bin
get_bin_status(bin_id) ==
    /\ UNCHANGED <<bins, today, users_file>>
    /\ IF bin_id \notin DOMAIN bins
       THEN last' \in Results("get_bin_status", None, <<>>)
       ELSE LET bin_obj == bins[bin_id]
                current_capacity == get_current_capacity(bin_id)
            IN  last' \in Results("get_bin_status",
                    Some([bin_id |-> bin_id,
                          current_capacity |-> current_capacity,
                          max_capacity |-> bin_obj.max_capacity,
                          available_capacity |-> bin_obj.max_capacity - current_capacity,
                          vegetable_count |-> Len(get_all_vegetables(bin_obj)),
                          at_capacity |-> current_capacity >= bin_obj.max_capacity]),
                    <<>>)

\* A list handed to the caller: `alias` is the id of the bin whose contents
\* list it is (the same object), or "None" for a list of its own.
SameList(bin_id) == [alias |-> bin_id, items |-> bins[bin_id].contents]
NewList(items) == [alias |-> "None", items |-> items]

\* StorageBin.get_all_vegetables called by a holder of the bin: self.contents
bin_get_all_vegetables(bin_id) ==
    /\ bin_id \in DOMAIN bins
    /\ last' \in Results("get_all_vegetables", SameList(bin_id), <<>>)
    /\ UNCHANGED <<bins, today, users_file>>

\* mutant: sort_by_expiration defaults to False, the stored list is returned
get_bin_contents_unsorted(bin_id) ==
    /\ UNCHANGED <<bins, today, users_file>>
    /\ IF bin_id \notin DOMAIN bins
       THEN last' \in Results("get_bin_contents", NewList(<<>>), <<>>)
       ELSE last' \in Results("get_bin_contents", SameList(bin_id), <<>>)

\* get_bin_contents(bin_id), as the dashboard calls it (sort_by_expiration
\* is True): quicksort_by_expiration returns its argument itself when it
\* holds at most one element and a new list otherwise
get_bin_contents(bin_id) ==
    /\ UNCHANGED <<bins, today, users_file>>
    /\ IF bin_id \notin DOMAIN bins
       THEN last' \in Results("get_bin_contents", NewList(<<>>), <<>>)
       ELSE LET vegetables == get_all_vegetables(bins[bin_id])
            IN  IF Len(vegetables) <= 1
                THEN last' \in Results("get_bin_contents", SameList(bin_id), <<>>)
                ELSE last' \in Results("get_bin_contents",
                                       NewList(quicksort_by_expiration(vegetables)),
                                       <<>>)

\* the caller appends to the list it was just handed
returned_list_append(vegetable) ==
    /\ last.op \in {"get_all_vegetables", "get_bin_contents"}
    /\ last' = Result("returned_list_append", "None", <<>>)
    /\ IF last.ret.alias \in DOMAIN bins
       THEN bins' = [bins EXCEPT ![last.ret.alias].contents = Append(@, vegetable)]
       ELSE UNCHANGED bins
    /\ UNCHANGED <<today, users_file>>

\* the caller empties the list it was just handed
returned_list_clear ==
    /\ last.op \in {"get_all_vegetables", "get_bin_contents"}
    /\ last' = Result("returned_list_clear", "None", <<>>)
    /\ IF last.ret.alias \in DOMAIN bins
       THEN bins' = [bins EXCEPT ![last.ret.alias].contents = <<>>]
       ELSE UNCHANGED bins
    /\ UNCHANGED <<today, users_file>>

\* get_safety_summary; safety_percentage is the fraction num / den
get_safety_summary ==
    /\ UNCHANGED <<bins, today, users_file>>
    /\ LET total_bins == Cardinality(DOMAIN bins)
           got == get_all_safety_violations
           violations == got.violations
           safe_bins == total_bins - Cardinality(violations)
       IN  IF got.raised # "None"
           THEN last' = Raised("get_safety_summary", got.raised)
           ELSE last' \in Results("get_safety_summary",
                    [total_bins |-> total_bins,
                     safe_bins |-> safe_bins,
                     unsafe_bins |-> Cardinality(violations),
                     safety_percentage |->
                         IF total_bins > 0
                         THEN [num |-> safe_bins * 100, den |-> total_bins]
                         ELSE [num |-> 100, den |-> 1],
                     violations |-> violations],
                    <<>>)

\* the calendar date moves on between two calls
AdvanceDay ==
    /\ today < MaxDay
    /\ today' = today + 1
    /\ UNCHANGED users_file
    /\ last' = Result("advance_day", "None", <<>>)
    /\ UNCHANGED bins

\* room for one more item record under the model's bound
RECURSIVE TotalRecords(_)
TotalRecords(S) ==
    IF S = {} THEN 0
    ELSE LET b == CHOOSE x \in S : TRUE
         IN  Len(bins[b].contents) + TotalRecords(S \ {b})

HasRoom == TotalRecords(DOMAIN bins) < MaxRecords

Next ==
    \/ \E b \in NewBinIds, c \in Capacities, t \in Temps, h \in Humidities :
          create_bin(b, c, t, h)
    \/ \E b \in BinIds, n \in Names, q \in Quantities, e \in ExpiryDates :
          HasRoom /\ add_vegetable_to_bin(b, Vegetable(n, q, e))
    \/ \E b \in BinIds, n \in QueryNames : remove_vegetable_from_bin(b, n)
    \/ \E b \in BinIds, n \in QueryNames, q \in TakeQuantities :
          take_out_vegetable_quantity(b, n, q)
    \/ \E b \in BinIds : check_fifo_warnings(b)
    \/ \E b \in BinIds : auto_remove_expired_vegetables(b)
    \/ AdvanceDay

Spec == Init /\ [][Next]_vars

\* ------------------------------------------------- the engine with queries
QueryNext ==
    \/ Next
    \/ \E b \in BinIds : get_bin_status(b)

SpecQueries == Init /\ [][QueryNext]_vars

\* ------------------------------- the engine offered valid quantities only
ValidQuantities == {q \in Quantities : q >= 1}

ValidOffersNext ==
    \/ \E b \in NewBinIds, c \in Capacities, t \in Temps, h \in Humidities :
          create_bin(b, c, t, h)
    \/ \E b \in BinIds, n \in Names, q \in ValidQuantities, e \in ExpiryDates :
          HasRoom /\ add_vegetable_to_bin(b, Vegetable(n, q, e))
    \/ \E b \in BinIds, n \in QueryNames : remove_vegetable_from_bin(b, n)
    \/ \E b \in BinIds, n \in QueryNames, q \in TakeQuantities :
          take_out_vegetable_quantity(b, n, q)
    \/ \E b \in BinIds : check_fifo_warnings(b)
    \/ \E b \in BinIds : auto_remove_expired_vegetables(b)
    \/ AdvanceDay

SpecValidOffers == Init /\ [][ValidOffersNext]_vars

\* ------------------------------------------- registry and safety monitoring
\* several bins, the conditions around the thresholds, one kind of item
RegistryTemps == {10, 15, 16}
RegistryHumidities == {98, 99}
RegistryItems == {Vegetable("Tomato", 1, 2)}

RegistryNext ==
    \/ \E b \in BinIds, c \in Capacities, t \in RegistryTemps,
          h \in RegistryHumidities : create_bin(b, c, t, h)
    \/ \E b \in BinIds, v \in RegistryItems : HasRoom /\ add_vegetable_to_bin(b, v)
    \/ \E b \in BinIds, t \in Optional(RegistryTemps),
          h \in Optional(RegistryHumidities) : update_bin_conditions(b, t, h)
    \/ \E b \in BinIds : check_bin_safety(b)
    \/ check_all_bins_safety
    \/ get_safety_summary
    \/ \E b \in BinIds, v \in RegistryItems : remove_vegetable_from_bin(b, v.name)
    \/ \E b \in BinIds, v \in RegistryItems :
          take_out_vegetable_quantity(b, v.name, v.quantity)
    \/ \E b \in BinIds : check_fifo_warnings(b)
    \/ AdvanceDay

SpecRegistry == Init /\ [][RegistryNext]_vars

\* ------------------------------------- concurrent add_vegetable_to_bin
\* Two threads call add_vegetable_to_bin on bin "A" with no lock.  A call is
\* two steps: the checks of lines 124-141, then the append, sort and sweep of
\* lines 143-152.  `last` holds, besides the last return, the item each
\* thread has checked and not yet appended (None when the thread is in no
\* call) and whether two calls have ever been in progress together.
Threads == {"t1", "t2"}

RaceState(op, ret, alerts, pending, overlapped) ==
    [op |-> op, ret |-> ret, alerts |-> alerts,
     pending |-> pending, overlapped |-> overlapped]

\* the engine after create_bin("A", c, 15, 98), no call in progress
RaceInit ==
    /\ \E c \in Capacities : bins = [b \in {"A"} |-> StorageBin(c, 15, 98)]
    /\ today = 0
    /\ last = RaceState("create_bin", TRUE, <<>>, [t \in Threads |-> None], FALSE)
    /\ users_file = None

PendingRecords == Cardinality({t \in Threads : last.pending[t] # None})

\* lines 124-141 in thread t: the call returns False, or goes on to append
add_check(t, vegetable) ==
    /\ last.pending[t] = None
    /\ TotalRecords(DOMAIN bins) + PendingRecords < MaxRecords
    /\ UNCHANGED <<bins, today, users_file>>
    /\ LET bin_obj == bins["A"]
           current_capacity == get_current_capacity("A")
       IN  IF would_exceed_capacity(current_capacity, vegetable, bin_obj)
           THEN last' = RaceState("add_vegetable_to_bin", FALSE, <<T_FULL>>,
                                  last.pending, last.overlapped)
           ELSE last' = RaceState("add_check", "None", <<>>,
                                  [last.pending EXCEPT ![t] = Some(vegetable)],
                                  last.overlapped \/ PendingRecords > 0)

\* lines 143-152 in thread t
add_append(t) ==
    /\ last.pending[t] # None
    /\ UNCHANGED <<today, users_file>>
    /\ LET bin_obj == bins["A"]
           vegetable == last.pending[t][1]
           added == add_vegetable(bin_obj, vegetable)
           sorted == _auto_sort_bin_by_expiration(
                         [bin_obj EXCEPT !.contents = added.contents])
           checked == _check_fifo_warnings(sorted)
           pending == [last.pending EXCEPT ![t] = None]
       IN  IF added.ok
           THEN /\ bins' = [bins EXCEPT !["A"] = checked.bin]
                /\ last' = RaceState("add_vegetable_to_bin", TRUE, checked.alerts,
                                     pending, last.overlapped)
           ELSE /\ UNCHANGED bins
                /\ last' = RaceState("add_vegetable_to_bin", FALSE, <<>>,
                                     pending, last.overlapped)

RaceNext ==
    \/ \E t \in Threads, n \in Names, q \in Quantities, e \in ExpiryDates :
          add_check(t, Vegetable(n, q, e))
    \/ \E t \in Threads : add_append(t)

SpecRace == RaceInit /\ [][RaceNext]_vars

\* ------------------------------------------- lists handed to the caller
SnapshotNext ==
    \/ \E b \in BinIds, c \in Capacities, t \in Temps, h \in Humidities :
          create_bin(b, c, t, h)
    \/ \E b \in BinIds, v \in RegistryItems : HasRoom /\ add_vegetable_to_bin(b, v)
    \/ \E b \in BinIds : bin_get_all_vegetables(b)
    \/ \E b \in BinIds : get_bin_contents(b)
    \/ \E v \in RegistryItems : HasRoom /\ returned_list_append(v)
    \/ returned_list_clear

SpecSnapshot == Init /\ [][SnapshotNext]_vars

\* ------------------------------------- the engine with get_bin_contents
ContentsNext ==
    \/ Next
    \/ \E b \in BinIds : get_bin_contents(b)

SpecContents == Init /\ [][ContentsNext]_vars

\* ------------------------------------------------- quicksort_by_expiration
\* the function applied to every list of at most MaxSortLen objects; each
\* object carries its position in the input as its identity
SortExpiryDates == {1, 2, 3}
SortInputs ==
    UNION {[1..n -> {Vegetable("Tomato", 1, e) : e \in SortExpiryDates}] :
              n \in 0..MaxSortLen}

\* a call of quicksort_by_expiration; the argument is kept with the result
quicksort_call(vegetables) ==
    /\ last' = [op |-> "quicksort_by_expiration",
                ret |-> quicksort_by_expiration(WithIdentity(vegetables)),
                alerts |-> <<>>,
                vegetables |-> WithIdentity(vegetables)]
    /\ UNCHANGED <<bins, today, users_file>>

SortNext ==
    \/ \E vegetables \in SortInputs : quicksort_call(vegetables)
    \/ AdvanceDay

SpecSort == Init /\ [][SortNext]_vars

\* -------------------------------------------- recommend_storage_conditions
\* A name is the sequence of its characters.  A number of the result is held
\* in tenths: the integer n stands for n / 10.
Tomato == <<"T", "o", "m", "a", "t", "o">>
Lettuce == <<"L", "e", "t", "t", "u", "c", "e">>
Carrot == <<"C", "a", "r", "r", "o", "t">>
Potato == <<"P", "o", "t", "a", "t", "o">>
Broccoli == <<"B", "r", "o", "c", "c", "o", "l", "i">>
Tomatillo == <<"T", "o", "m", "a", "t", "i", "l", "l", "o">>

\* self.vegetable_profiles, in insertion order
vegetable_profiles ==
    << [name |-> Tomato, optimal_temp |-> 12, optimal_humidity |-> 85, shelf_life |-> 7],
       [name |-> Lettuce, optimal_temp |-> 2, optimal_humidity |-> 95, shelf_life |-> 10],
       [name |-> Carrot, optimal_temp |-> 0, optimal_humidity |-> 98, shelf_life |-> 21],
       [name |-> Potato, optimal_temp |-> 7, optimal_humidity |-> 90, shelf_life |-> 30],
       [name |-> Broccoli, optimal_temp |-> 0, optimal_humidity |-> 95, shelf_life |-> 14] >>

ProfileFields == {"optimal_temp", "optimal_humidity", "shelf_life"}

\* str.lower() on one character
LowerChar(c) ==
    CASE c = "T" -> "t"
      [] c = "L" -> "l"
      [] c = "C" -> "c"
      [] c = "P" -> "p"
      [] c = "B" -> "b"
      [] OTHER -> c

\* set(name.lower())
CharSet(name) == {LowerChar(name[i]) : i \in 1..Len(name)}

\* _calculate_name_similarity: the fraction num / den
_calculate_name_similarity(name1, name2) ==
    LET set1 == CharSet(name1)
        set2 == CharSet(name2)
        intersection == set1 \cap set2
        union == set1 \cup set2
    IN  IF union # {}
        THEN [num |-> Cardinality(intersection), den |-> Cardinality(union)]
        ELSE [num |-> 0, den |-> 1]

GreaterFraction(a, b) == a.num * b.den > b.num * a.den

\* mutant: the least similar profiles first
sort_ascending(similarities) ==
    LET rank(i) ==
            1 + Cardinality({j \in 1..Len(similarities) :
                    \/ GreaterFraction(similarities[i].similarity,
                                       similarities[j].similarity)
                    \/ /\ ~GreaterFraction(similarities[j].similarity,
                                            similarities[i].similarity)
                       /\ j < i})
    IN  [k \in 1..Len(similarities) |->
            similarities[CHOOSE i \in 1..Len(similarities) : rank(i) = k]]

\* similarities.sort(reverse=True, key=lambda x: x[0]): descending by
\* similarity, entries of equal similarity keeping their order
sort_descending(similarities) ==
    LET rank(i) ==
            1 + Cardinality({j \in 1..Len(similarities) :
                    \/ GreaterFraction(similarities[j].similarity,
                                       similarities[i].similarity)
                    \/ /\ ~GreaterFraction(similarities[i].similarity,
                                            similarities[j].similarity)
                       /\ j < i})
    IN  [k \in 1..Len(similarities) |->
            similarities[CHOOSE i \in 1..Len(similarities) : rank(i) = k]]

\* the list top_3 of recommend_storage_conditions
top_3(vegetable_name) ==
    LET similarities ==
            [i \in 1..Len(vegetable_profiles) |->
                [similarity |-> _calculate_name_similarity(vegetable_name,
                                                           vegetable_profiles[i].name),
                 profile |-> vegetable_profiles[i]]]
        sorted == sort_descending(similarities)
    IN  SubSeq(sorted, 1, Min(3, Len(sorted)))

RECURSIVE ProductOfDens(_)
ProductOfDens(top) ==
    IF top = <<>> THEN 1 ELSE Head(top).similarity.den * ProductOfDens(Tail(top))

\* sum(...) of a list of numbers
RECURSIVE SumSeq(_)
SumSeq(s) == IF s = <<>> THEN 0 ELSE Head(s) + SumSeq(Tail(s))

\* round(n / d, 1) in tenths, for n >= 0 and d > 0
RoundTenths(n, d) ==
    LET q == (10 * n) \div d
        r == (10 * n) % d
    IN  IF 2 * r < d THEN q
        ELSE IF 2 * r > d THEN q + 1
        ELSE IF q % 2 = 0 THEN q ELSE q + 1

\* mutant: the exact-match lookup is skipped
recommend_storage_conditions_blend_only(vegetable_name) ==
    LET top == top_3(vegetable_name)
        common == ProductOfDens(top)
        weight(sim) == sim.similarity.num * (common \div sim.similarity.den)
        total_similarity == SumSeq([i \in 1..Len(top) |-> weight(top[i])])
        avg(field) ==
            RoundTenths(SumSeq([i \in 1..Len(top) |->
                                   weight(top[i]) * top[i].profile[field]]),
                        total_similarity)
    IN  IF total_similarity = 0
        THEN [raised |-> "ZeroDivisionError"]
        ELSE [raised |-> "None",
              value |-> [field \in ProfileFields |-> avg(field)]]

\* recommend_storage_conditions: [raised, value]; the sums are taken over the
\* common denominator `common` of the three similarities
recommend_storage_conditions(vegetable_name) ==
    IF \E i \in 1..Len(vegetable_profiles) : vegetable_profiles[i].name = vegetable_name
    THEN LET i == CHOOSE k \in 1..Len(vegetable_profiles) :
                     vegetable_profiles[k].name = vegetable_name
         IN  [raised |-> "None",
              value |-> [field \in ProfileFields |-> 10 * vegetable_profiles[i][field]]]
    ELSE LET top == top_3(vegetable_name)
             common == ProductOfDens(top)
             weight(sim) == sim.similarity.num * (common \div sim.similarity.den)
             total_similarity == SumSeq([i \in 1..Len(top) |-> weight(top[i])])
             avg(field) ==
                 RoundTenths(SumSeq([i \in 1..Len(top) |->
                                        weight(top[i]) * top[i].profile[field]]),
                             total_similarity)
         IN  IF top = <<>>
             THEN [raised |-> "None",
                   value |-> [optimal_temp |-> 40, optimal_humidity |-> 900,
                              shelf_life |-> 140]]
             ELSE IF total_similarity = 0
             THEN [raised |-> "ZeroDivisionError"]
             ELSE [raised |-> "None",
                   value |-> [field \in ProfileFields |-> avg(field)]]

\* the names asked for: every name of at most MaxNameLen characters over
\* NameChars (a profile letter, a letter of no profile, a capital), the
\* profile keys, and Tomatillo and tomato, which are no key
NameChars == {"o", "x", "T"}
RecommendNames ==
    UNION {[1..n -> NameChars] : n \in 0..MaxNameLen}
        \cup {vegetable_profiles[i].name : i \in 1..Len(vegetable_profiles)}
        \cup {Tomatillo, <<"t", "o", "m", "a", "t", "o">>}

\* a call of recommend_storage_conditions; the argument is kept with the result
recommend_call(vegetable_name) ==
    /\ LET got == recommend_storage_conditions(vegetable_name)
       IN  last' = IF got.raised # "None"
                   THEN [op |-> "recommend_storage_conditions", ret |-> "None",
                         alerts |-> <<>>, raised |-> got.raised,
                         vegetable_name |-> vegetable_name]
                   ELSE [op |-> "recommend_storage_conditions", ret |-> got.value,
                         alerts |-> <<>>, vegetable_name |-> vegetable_name]
    /\ UNCHANGED <<bins, today, users_file>>

RecommendNext == \E vegetable_name \in RecommendNames : recommend_call(vegetable_name)

SpecRecommend == Init /\ [][RecommendNext]_vars

\* ------------------------------------------------------ credential store
\* users_file is what USER_DATA_FILE holds: None while the file does not
\* exist, else Some(the members of the JSON object), a member being a
\* <<key, value>> pair.
Usernames == {"alice", "Alice", "bob"}
Passwords == {"pw1", "pw2", ""}

\* json.dump of a dict of strings: one member per key
json_dump(users) == {<<k, users[k]>> : k \in DOMAIN users}

\* json.load of an object: the dict of its members
json_load(members) ==
    [k \in {m[1] : m \in members} |-> (CHOOSE m \in members : m[1] = k)[2]]

\* the dict read back from the file, empty when there is no file
load_users == IF users_file = None THEN <<>> ELSE json_load(users_file[1])

\* the file after save_users(users)
save_users(users) == Some(json_dump(users))

\* dict.get: None for a missing key
dict_get(users, key) == IF key \in DOMAIN users THEN Some(users[key]) ELSE None

\* mutant: no test for a registered name, the entry is replaced
add_user_overwrite(username, password) ==
    /\ UNCHANGED <<bins, today>>
    /\ LET users == load_users
           updated == [k \in DOMAIN users \cup {username} |->
                          IF k = username THEN password ELSE users[k]]
       IN  /\ users_file' = save_users(updated)
           /\ last' = Result("add_user", TRUE, <<>>)

add_user(username, password) ==
    /\ UNCHANGED <<bins, today>>
    /\ LET users == load_users
           updated == [k \in DOMAIN users \cup {username} |->
                          IF k = username THEN password ELSE users[k]]
       IN  IF username \in DOMAIN users
           THEN /\ UNCHANGED users_file
                /\ last' = Result("add_user", FALSE, <<>>)
           ELSE /\ users_file' = save_users(updated)
                /\ last' = Result("add_user", TRUE, <<>>)

\* the value check_credentials returns when the file holds `file`
credentials_match(file, username, password) ==
    LET users == IF file = None THEN <<>> ELSE json_load(file[1])
    IN  dict_get(users, username) = Some(password)

check_credentials(username, password) ==
    /\ UNCHANGED <<bins, today, users_file>>
    /\ last' = Result("check_credentials",
                      credentials_match(users_file, username, password), <<>>)

UsersNext ==
    \/ \E u \in Usernames, p \in Passwords : add_user(u, p)
    \/ \E u \in Usernames, p \in Passwords : check_credentials(u, p)

SpecUsers == Init /\ [][UsersNext]_vars

\* ================================================================ claims
Positions(s) == 1..Len(s)

NoExpired(contents) == \A i \in Positions(contents) : days_until_expiry(contents[i]) > 0

IsSortedByExpiry(contents) ==
    \A i \in Positions(contents) : \A j \in Positions(contents) :
        i < j => days_until_expiry(contents[i]) <= days_until_expiry(contents[j])

\* the multiset of the elements of a sequence
BagOfSeq(s) ==
    [x \in {s[i] : i \in Positions(s)} |-> Cardinality({i \in Positions(s) : s[i] = x})]

NameQuantity(s) ==
    [i \in Positions(s) |-> [name |-> s[i].name, quantity |-> s[i].quantity]]

\* C1: in every reachable state every registered bin holds a total quantity
\* of at most its max_capacity, whatever integers were given as capacities
\* and quantities.
C1_TotalWithinCapacity ==
    \A b \in DOMAIN bins : SumQuantity(bins[b].contents) <= bins[b].max_capacity

\* C2: an add_vegetable_to_bin on an existing bin whose total quantity plus
\* the item's quantity exceeds max_capacity returns failure and leaves the
\* bin's item sequence and every quantity as they were.
C2_RejectedAddKeepsBin ==
    [][last'.op = "add_vegetable_to_bin" =>
        \A b \in DOMAIN bins : \A n \in Names, q \in Quantities, e \in ExpiryDates :
            ( /\ SumQuantity(bins[b].contents) + q > bins[b].max_capacity
              /\ add_vegetable_to_bin(b, Vegetable(n, q, e)) )
            => ( /\ last'.ret = FALSE
                 /\ DOMAIN bins' = DOMAIN bins
                 /\ bins'[b].contents = bins[b].contents )]_vars

\* C2 witness: a bin of capacity 3 holding one item of quantity 3 has just
\* rejected an add as over capacity.
C2_Witness ==
    /\ last.op = "add_vegetable_to_bin"
    /\ last.ret = FALSE
    /\ last.alerts = <<T_FULL>>
    /\ \E b \in DOMAIN bins :
          /\ bins[b].max_capacity = 3
          /\ Len(bins[b].contents) = 1
          /\ bins[b].contents[1].quantity = 3

\* every capacity is non-negative and every stored quantity is at least 1
ValidStock ==
    \A b \in DOMAIN bins :
        /\ bins[b].max_capacity >= 0
        /\ \A i \in Positions(bins[b].contents) : bins[b].contents[i].quantity >= 1

\* C3: after a mutating call (add, remove, withdraw) every bin holding at
\* least two items stores them in non-decreasing order of days_until_expiry
\* (stated for bins whose capacities and quantities are valid).
C3_StoredInFifoOrder ==
    (ValidStock /\ last.op \in {"add_vegetable_to_bin", "remove_vegetable_from_bin",
                                "take_out_vegetable_quantity"})
    => \A b \in DOMAIN bins :
          Len(bins[b].contents) >= 2 => IsSortedByExpiry(bins[b].contents)

\* C4: right after a successful add_vegetable_to_bin and after a
\* _check_fifo_warnings on a bin, the bin holds no item with
\* days_until_expiry <= 0 and the critical warning was not dispatched
\* (stated for bins whose capacities and quantities are valid).
C4_NoExpiredAfterSweep ==
    [][(ValidStock /\ ValidStock' /\ last'.op \in {"add_vegetable_to_bin", "_check_fifo_warnings"}) =>
        \A b \in DOMAIN bins :
            ( \/ /\ last'.op = "add_vegetable_to_bin"
                 /\ last'.ret = TRUE
                 /\ \E n \in Names, q \in Quantities, e \in ExpiryDates :
                       add_vegetable_to_bin(b, Vegetable(n, q, e))
              \/ /\ last'.op = "_check_fifo_warnings"
                 /\ check_fifo_warnings(b) )
            => ( /\ NoExpired(bins'[b].contents)
                 /\ \A i \in Positions(last'.alerts) : last'.alerts[i] # T_CRITICAL )]_vars

\* C5: once _auto_remove_expired_vegetables has run on a bin, running it
\* again at the same date returns an empty list and leaves the bin unchanged
\* (stated for bins whose capacities and quantities are valid).
C5_SweepIdempotent ==
    [][(ValidStock /\ ValidStock' /\ last'.op = "_auto_remove_expired_vegetables") =>
        \A b \in DOMAIN bins :
            auto_remove_expired_vegetables(b)
            => LET second == _auto_remove_expired_vegetables(bins'[b].contents)
               IN  /\ second.removed_list = <<>>
                   /\ second.contents = bins'[b].contents]_vars

\* C6: _auto_remove_expired_vegetables removes exactly the records with
\* days_until_expiry <= 0, keeps every other record with its quantity, and
\* returns the (name, quantity) multiset of the records it removed
\* (stated for bins whose capacities and quantities are valid).
C6_SweepRemovesExactlyExpired ==
    [][(ValidStock /\ ValidStock' /\ last'.op = "_auto_remove_expired_vegetables") =>
        \A b \in DOMAIN bins :
            auto_remove_expired_vegetables(b)
            => LET before == bins[b].contents
                   fresh == SelectSeq(before, LAMBDA v : days_until_expiry(v) > 0)
                   expired == SelectSeq(before, LAMBDA v : days_until_expiry(v) <= 0)
               IN  /\ bins'[b].contents = fresh
                   /\ BagOfSeq(last'.ret) = BagOfSeq(NameQuantity(expired))]_vars

\* the item take_out_vegetable_quantity settles on: the first item, in FIFO
\* order, whose name equals the requested one ignoring case
Matched(contents, name) ==
    FindTarget(quicksort_by_expiration(WithIdentity(contents)), name)

\* C7: a take_out_vegetable_quantity on a bin holding no expired item returns
\* the amount by which the bin's total quantity went down, and returns less
\* than a positive requested quantity only when the matched item held fewer
\* units than requested (stated for valid capacities and quantities).
C7_ReturnIsAmountRemoved ==
    [][(ValidStock /\ ValidStock' /\ last'.op = "take_out_vegetable_quantity") =>
        \A b \in DOMAIN bins : \A n \in QueryNames, q \in TakeQuantities :
            (NoExpired(bins[b].contents) /\ take_out_vegetable_quantity(b, n, q))
            => LET found == Matched(bins[b].contents, n)
               IN  /\ last'.ret = SumQuantity(bins[b].contents)
                                  - SumQuantity(bins'[b].contents)
                   /\ (q > 0 /\ found # <<>> /\ last'.ret < q)
                         => Head(found).quantity < q]_vars

\* C8: when the requested quantity is at least the quantity of the matched
\* item (the first in FIFO order with that name, ignoring case), exactly that
\* record leaves the bin, every other record stays, and min(qty, available)
\* is returned (stated for valid stock with no expired item in the bin).
C8_WholeWithdrawRemovesMatched ==
    [][(ValidStock /\ ValidStock' /\ last'.op = "take_out_vegetable_quantity") =>
        \A b \in DOMAIN bins : \A n \in QueryNames, q \in TakeQuantities :
            LET found == Matched(bins[b].contents, n)
            IN  ( /\ NoExpired(bins[b].contents)
                  /\ found # <<>>
                  /\ q > 0
                  /\ q >= Head(found).quantity
                  /\ take_out_vegetable_quantity(b, n, q) )
                => ( /\ bins'[b].contents = RemoveAt(bins[b].contents, Head(found).pos)
                     /\ last'.ret = Min(q, Head(found).quantity) )]_vars

\* C9: a take_out_vegetable_quantity with 0 < qty < quantity of the matched
\* item returns qty; the matched item is a soonest-expiring item of that name
\* (ignoring case) and is the only one whose quantity changes, by exactly
\* qty; the bin afterwards is what the expiry sweep leaves of that, which is
\* all of it when nothing in the bin is expired and includes the reduced
\* item whenever that item is not expired; other bins are untouched.
C9_PartialWithdraw ==
    [][last'.op = "take_out_vegetable_quantity" =>
        \A b \in DOMAIN bins : \A n \in QueryNames :
            LET before == bins[b].contents
                found == Matched(before, n)
                p == Head(found).pos
            IN  found # <<>> =>
                \A q \in TakeQuantities :
                    ( /\ 0 < q
                      /\ q < before[p].quantity
                      /\ take_out_vegetable_quantity(b, n, q) )
                    => LET reduced == [i \in Positions(before) |->
                                         IF i = p
                                         THEN [name |-> before[i].name,
                                               quantity |-> before[i].quantity - q,
                                               expiry_date |-> before[i].expiry_date]
                                         ELSE before[i]]
                       IN  /\ last'.ret = q
                           /\ Lower(before[p].name) = Lower(n)
                           /\ \A j \in Positions(before) :
                                 Lower(before[j].name) = Lower(n)
                                 => days_until_expiry(before[p])
                                       <= days_until_expiry(before[j])
                           /\ bins'[b].contents =
                                 _auto_remove_expired_vegetables(reduced).contents
                           /\ NoExpired(before) => bins'[b].contents = reduced
                           /\ days_until_expiry(before[p]) > 0
                                 => \E i \in Positions(bins'[b].contents) :
                                       bins'[b].contents[i] = reduced[p]
                           /\ DOMAIN bins' = DOMAIN bins
                           /\ \A c \in DOMAIN bins \ {b} : bins'[c] = bins[c]]_vars

\* C9 witness: a withdrawal of 1 from an item of 3 has returned 1 and the
\* item is still in its bin with quantity 2.
C9_Witness ==
    /\ last.op = "take_out_vegetable_quantity"
    /\ last.ret = 1
    /\ \E b \in DOMAIN bins : \E i \in Positions(bins[b].contents) :
          bins[b].contents[i].quantity = 2

\* C10: take_out_vegetable_quantity returns 0 and changes nothing in the
\* registry or in any bin when the bin id is unknown, when no item of the bin
\* matches the name ignoring case, or when qty <= 0.
C10_RejectedWithdrawChangesNothing ==
    [][last'.op = "take_out_vegetable_quantity" =>
        \/ (last'.ret = 0 /\ bins' = bins)
        \/ \A b \in BinIds, n \in QueryNames, q \in TakeQuantities :
              ~ ( /\ \/ b \notin DOMAIN bins
                     \/ \A i \in Positions(bins[b].contents) :
                           Lower(bins[b].contents[i].name) # Lower(n)
                     \/ q <= 0
                  /\ take_out_vegetable_quantity(b, n, q) )]_vars

\* C10 witness: a withdrawal has just been refused with 0 while a bin holds
\* an expired item and an item of non-positive quantity could be matched,
\* so that a withdrawal let through would have changed the bin.
C10_Witness ==
    /\ last.op = "take_out_vegetable_quantity"
    /\ last.ret = 0
    /\ last.alerts = <<T_ERROR>>
    /\ \E b \in DOMAIN bins : ~NoExpired(bins[b].contents)
    /\ BinIds \ DOMAIN bins # {}

\* the call recorded in `last` returned normally
Returned(call) == ~HasAttr(call, "raised")

\* C11: create_bin succeeds exactly when temp <= 15, humidity <= 98 and the
\* id is not registered; on success the registry gains exactly that id with
\* the given capacity and conditions and no items, every other bin staying
\* as it was; on failure the registry and every bin are unchanged.
C11_CreateBinContract ==
    [][last'.op = "create_bin" =>
        \A b \in BinIds, c \in Capacities, t \in RegistryTemps,
           h \in RegistryHumidities :
            create_bin(b, c, t, h)
            => LET ok == t <= 15 /\ h <= 98 /\ b \notin DOMAIN bins
               IN  /\ Returned(last')
                   /\ last'.ret = ok
                   /\ ok => /\ DOMAIN bins' = DOMAIN bins \cup {b}
                             /\ bins'[b].max_capacity = c
                             /\ bins'[b].current_temperature = t
                             /\ bins'[b].current_humidity = h
                             /\ bins'[b].contents = <<>>
                             /\ \A o \in DOMAIN bins : bins'[o] = bins[o]
                   /\ ~ok => bins' = bins]_vars

\* C11 witness: a create_bin has just succeeded at the thresholds 15 and 98
\* while another bin, holding an item, was already registered.
C11_Witness ==
    /\ last.op = "create_bin"
    /\ last.ret = TRUE
    /\ \E b \in DOMAIN bins :
          /\ bins[b].contents = <<>>
          /\ bins[b].current_temperature = 15
          /\ bins[b].current_humidity = 98
    /\ \E o \in DOMAIN bins : bins[o].contents # <<>>

\* C12: a create_bin with unsafe conditions on an id that is already
\* registered fails with the safety alert alone, never the duplicate error.
C12_UnsafeBeforeDuplicate ==
    [][last'.op = "create_bin" =>
        \A b \in DOMAIN bins : \A c \in Capacities, t \in RegistryTemps,
           h \in RegistryHumidities :
            (~(t <= 15 /\ h <= 98) /\ create_bin(b, c, t, h))
            => /\ last'.ret = FALSE
               /\ last'.alerts = <<T_SAFETY>>]_vars

\* C12 witness: a create_bin has just failed with the safety alert while
\* every id it can be called with was registered, so the id was a duplicate.
C12_Witness ==
    /\ last.op = "create_bin"
    /\ last.ret = FALSE
    /\ last.alerts = <<T_SAFETY>>
    /\ DOMAIN bins = BinIds

\* the value update_bin_conditions is to check: the supplied one, else current
Prospective(new_value, current) == IF new_value # None THEN new_value[1] ELSE current

\* C13: update_bin_conditions on an existing bin whose prospective conditions
\* fail the safety gate returns failure and leaves the bin's temperature and
\* humidity unchanged.
C13_UnsafeUpdateRejected ==
    [][last'.op = "update_bin_conditions" =>
        \A b \in DOMAIN bins : \A t \in Optional(RegistryTemps),
           h \in Optional(RegistryHumidities) :
            ( /\ ~( /\ Prospective(t, bins[b].current_temperature) <= 15
                    /\ Prospective(h, bins[b].current_humidity) <= 98 )
              /\ update_bin_conditions(b, t, h) )
            => /\ Returned(last')
               /\ last'.ret = FALSE
               /\ bins' = bins]_vars

\* C14: update_bin_conditions on an existing bin whose prospective conditions
\* pass the safety gate returns success, sets the supplied fields of the
\* conditions given at create_bin, and leaves an unsupplied field, the
\* capacity and the items unchanged.
C14_SafeUpdateApplied ==
    [][last'.op = "update_bin_conditions" =>
        \A b \in DOMAIN bins : \A t \in Optional(RegistryTemps),
           h \in Optional(RegistryHumidities) :
            ( /\ Prospective(t, bins[b].current_temperature) <= 15
              /\ Prospective(h, bins[b].current_humidity) <= 98
              /\ update_bin_conditions(b, t, h) )
            => /\ Returned(last')
               /\ last'.ret = TRUE
               /\ bins'[b].current_temperature
                     = Prospective(t, bins[b].current_temperature)
               /\ bins'[b].current_humidity
                     = Prospective(h, bins[b].current_humidity)
               /\ bins'[b].max_capacity = bins[b].max_capacity
               /\ bins'[b].contents = bins[b].contents]_vars

\* the conditions the bin was given pass the safety gate
BinWithinThresholds(b) ==
    bins[b].current_temperature <= 15 /\ bins[b].current_humidity <= 98

\* C15: check_bin_safety on a registered bin returns true exactly when the
\* bin's conditions pass the safety gate, check_all_bins_safety returns true
\* exactly when no registered bin violates it, and both complete normally
\* and change no state.
C15_SafetyChecksArePure ==
    [][last'.op \in {"check_bin_safety", "check_all_bins_safety"} =>
        /\ bins' = bins
        /\ last'.op = "check_all_bins_safety"
              => /\ Returned(last')
                 /\ last'.ret = (\A b \in DOMAIN bins : BinWithinThresholds(b))
        /\ last'.op = "check_bin_safety"
              => \A b \in DOMAIN bins :
                    check_bin_safety(b)
                    => /\ Returned(last')
                       /\ last'.ret = BinWithinThresholds(b)]_vars

\* C16: in every reachable state every item held in any bin has a quantity
\* greater than 0, whatever integers were given as quantities and amounts.
C16_QuantitiesPositive ==
    \A b \in DOMAIN bins :
        \A i \in Positions(bins[b].contents) : bins[b].contents[i].quantity > 0

\* C17: quicksort_by_expiration returns a permutation of its input that is
\* non-decreasing by days_until_expiry and in which items with equal
\* days_until_expiry keep their input relative order.
C17_QuicksortStablePermutation ==
    last.op = "quicksort_by_expiration" =>
        LET input == last.vegetables
            output == last.ret
        IN  /\ Len(output) = Len(input)
            /\ \A i \in Positions(output) :
                  /\ output[i].pos \in Positions(input)
                  /\ output[i] = input[output[i].pos]
            /\ \A i \in Positions(output) : \A j \in Positions(output) :
                  i < j =>
                    /\ output[i].pos # output[j].pos
                    /\ days_until_expiry(output[i]) <= days_until_expiry(output[j])
                    /\ days_until_expiry(output[i]) = days_until_expiry(output[j])
                          => output[i].pos < output[j].pos

\* C17 witness: a list of four objects that was out of order and held two
\* objects of equal days_until_expiry on either side of a sooner one has
\* been sorted.
C17_Witness ==
    /\ last.op = "quicksort_by_expiration"
    /\ Len(last.vegetables) = 4
    /\ last.ret # last.vegetables
    /\ \E i \in 1..4 : \E j \in 1..4 : \E k \in 1..4 :
          /\ i < j /\ j < k
          /\ last.vegetables[i].expiry_date = last.vegetables[k].expiry_date
          /\ last.vegetables[j].expiry_date < last.vegetables[i].expiry_date

ProfileIndexes == 1..Len(vegetable_profiles)

IsProfileKey(name) == \E i \in ProfileIndexes : vegetable_profiles[i].name = name

\* C18: recommend_storage_conditions returns a result and does not raise for
\* any name that is not a profile key, the empty name and names sharing no
\* character with a profile name included.
C18_RecommendNeverRaises ==
    (last.op = "recommend_storage_conditions" /\ ~IsProfileKey(last.vegetable_name))
    => Returned(last)

\* C19: for a name equal, case-sensitively, to a profile key the result is
\* that profile's stored values, unblended and unrounded; Tomato gives
\* optimal_temp 12, optimal_humidity 85, shelf_life 7 (120, 850, 70 tenths).
C19_ExactKeyReturnsProfile ==
    last.op = "recommend_storage_conditions" =>
        /\ \A i \in ProfileIndexes :
              last.vegetable_name = vegetable_profiles[i].name
              => /\ Returned(last)
                 /\ \A field \in ProfileFields :
                       last.ret[field] = 10 * vegetable_profiles[i][field]
        /\ last.vegetable_name = Tomato
              => /\ Returned(last)
                 /\ last.ret = [optimal_temp |-> 120, optimal_humidity |-> 850,
                                shelf_life |-> 70]

\* C19 witness: the recommendation for the key Tomato has been returned.
C19_Witness ==
    /\ last.op = "recommend_storage_conditions"
    /\ last.vegetable_name = Tomato
    /\ Returned(last)

\* the Jaccard similarity of two names as a pair <<|A n B|, |A u B|>>
Jaccard(a, b) ==
    <<Cardinality(CharSet(a) \cap CharSet(b)), Cardinality(CharSet(a) \cup CharSet(b))>>

\* x is strictly more similar than y, both pairs of Jaccard
MoreSimilar(x, y) == x[2] # 0 /\ y[2] # 0 /\ x[1] * y[2] > y[1] * x[2]

MinOf(S) == CHOOSE x \in S : \A y \in S : x <= y
MaxOf(S) == CHOOSE x \in S : \A y \in S : x >= y

\* C20: for a name that is no profile key the blended profiles are three
\* distinct profiles, no profile left out has a strictly higher Jaccard
\* similarity to the name than a chosen one, and each returned field lies
\* between the minimum and the maximum of that field over the chosen three.
C20_BlendOfThreeMostSimilar ==
    (last.op = "recommend_storage_conditions" /\ ~IsProfileKey(last.vegetable_name))
    => LET name == last.vegetable_name
           top == top_3(name)
           chosen == {i \in ProfileIndexes :
                        \E k \in 1..Len(top) : top[k].profile = vegetable_profiles[i]}
       IN  /\ Len(top) = 3
           /\ Cardinality(chosen) = 3
           /\ \A i \in chosen : \A o \in ProfileIndexes \ chosen :
                 ~MoreSimilar(Jaccard(name, vegetable_profiles[o].name),
                              Jaccard(name, vegetable_profiles[i].name))
           /\ Returned(last) =>
                 \A field \in ProfileFields :
                    LET values == {vegetable_profiles[i][field] : i \in chosen}
                    IN  /\ 10 * MinOf(values) <= last.ret[field]
                        /\ last.ret[field] <= 10 * MaxOf(values)

\* C20 witness: the blend for Tomatillo, no profile key, has been returned,
\* and a profile left out is strictly less similar to it than a chosen one.
C20_Witness ==
    /\ last.op = "recommend_storage_conditions"
    /\ last.vegetable_name = Tomatillo
    /\ Returned(last)
    /\ \E i \in ProfileIndexes : \E o \in ProfileIndexes :
          MoreSimilar(Jaccard(Tomatillo, vegetable_profiles[i].name),
                      Jaccard(Tomatillo, vegetable_profiles[o].name))

\* C21: for a registered bin get_bin_status reports current_capacity = the
\* sum of the item quantities, available_capacity = max_capacity minus that
\* and never negative, vegetable_count = the number of item records and
\* at_capacity exactly when current_capacity >= max_capacity, and it changes
\* no state.
C21_BinStatusReport ==
    [][last'.op = "get_bin_status" =>
        /\ bins' = bins
        /\ \A b \in DOMAIN bins :
              get_bin_status(b)
              => LET status == last'.ret[1]
                     total == SumQuantity(bins[b].contents)
                 IN  /\ status.current_capacity = total
                     /\ status.available_capacity = bins[b].max_capacity - total
                     /\ status.available_capacity >= 0
                     /\ status.vegetable_count = Len(bins[b].contents)
                     /\ status.at_capacity = (total >= bins[b].max_capacity)]_vars

\* C22: get_safety_summary completes in every state and reports total_bins =
\* the number of registered bins, unsafe_bins = the number of bins outside
\* the thresholds, safe_bins + unsafe_bins = total_bins, and a
\* safety_percentage of 100 when no bin is registered.
C22_SafetySummaryReport ==
    last.op = "get_safety_summary" =>
        /\ Returned(last)
        /\ last.ret.total_bins = Cardinality(DOMAIN bins)
        /\ last.ret.unsafe_bins
              = Cardinality({b \in DOMAIN bins : ~BinWithinThresholds(b)})
        /\ last.ret.safe_bins + last.ret.unsafe_bins = last.ret.total_bins
        /\ DOMAIN bins = {} => last.ret.safety_percentage = [num |-> 100, den |-> 1]

\* C23: whatever the alert sink does with a box (shows it, is unavailable,
\* throws), a call hands back the same value and leaves the same state: the
\* outcome recorded for a call that returned is its outcome under every
\* behaviour of the sink.
C23_AlertFailureHarmless ==
    (last.op \notin {"init", "advance_day"} /\ Returned(last))
    => Results(last.op, last.ret, last.alerts) = {last}

\* C23 witness: an add_vegetable_to_bin has returned success after its expiry
\* sweep changed the bin and the removal box went to the sink.
C23_Witness ==
    /\ last.op = "add_vegetable_to_bin"
    /\ last.ret = TRUE
    /\ \E i \in Positions(last.alerts) : last.alerts[i] = T_REMOVED

\* C25: the list returned by StorageBin.get_all_vegetables and by
\* get_bin_contents is a snapshot: appending to it or emptying it does not
\* change what any bin stores.
C25_ReturnedListIsSnapshot ==
    [][last'.op \in {"returned_list_append", "returned_list_clear"}
          => bins' = bins]_vars

\* two concurrent calls have both passed the capacity check on valid stock
\* and both appended: the bin holds more than its max_capacity
RaceOverCapacity ==
    /\ last.overlapped
    /\ ValidStock
    /\ \E b \in DOMAIN bins : SumQuantity(bins[b].contents) > bins[b].max_capacity

\* C24: add_vegetable_to_bin calls that overlap can both pass the capacity
\* check and take a bin over its max_capacity (RaceOverCapacity), and as
\* long as no two calls have overlapped no bin holds more than max_capacity.
C24_SerializedWithinCapacity ==
    ~last.overlapped
    => \A b \in DOMAIN bins : SumQuantity(bins[b].contents) <= bins[b].max_capacity

\* C26: StorageBin.add_vegetable appends the item and returns true whatever
\* the number of records stored, so add_vegetable_to_bin succeeds whenever the
\* bin exists and current_capacity + item.quantity <= max_capacity.
C26_BinAppendUnconditional ==
    [][last'.op = "add_vegetable_to_bin" =>
        \A b \in DOMAIN bins : \A n \in Names, q \in Quantities, e \in ExpiryDates :
            add_vegetable_to_bin(b, Vegetable(n, q, e))
            => /\ add_vegetable(bins[b], Vegetable(n, q, e))
                    = [ok |-> TRUE,
                       contents |-> Append(bins[b].contents, Vegetable(n, q, e))]
               /\ SumQuantity(bins[b].contents) + q <= bins[b].max_capacity
                    => last'.ret = TRUE]_vars

\* every record of s is a record of t, as many times at most
RecordsAmong(s, t) ==
    \A x \in DOMAIN BagOfSeq(s) :
        /\ x \in DOMAIN BagOfSeq(t)
        /\ BagOfSeq(s)[x] <= BagOfSeq(t)[x]

\* the first stored record of this name (case-sensitive) is at position i
FirstMatchAt(contents, name, i) ==
    /\ i \in Positions(contents)
    /\ contents[i].name = name
    /\ \A j \in 1..(i - 1) : contents[j].name # name

\* remove_vegetable_from_bin(b, n) fails: unknown bin or no stored name equal
\* to n; it returns false and every bin is as before
RemoveFailureUnchanged(b, n) ==
    (b \notin DOMAIN bins \/ \A i \in Positions(bins[b].contents) :
                                 bins[b].contents[i].name # n)
    => /\ last'.ret = FALSE
       /\ bins' = bins

\* C27 as stated: remove_vegetable_from_bin(bin, name) removes exactly one
\* record, the first stored item whose name equals name case-sensitively, and
\* returns true; when the bin is unknown or no stored name matches it returns
\* false and leaves every bin unchanged.
C27_RemoveExactlyOne ==
    [][last'.op = "remove_vegetable_from_bin" =>
        \A b \in BinIds, n \in QueryNames :
            remove_vegetable_from_bin(b, n)
            => /\ RemoveFailureUnchanged(b, n)
               /\ b \in DOMAIN bins
                    => \A i \in Positions(bins[b].contents) :
                          FirstMatchAt(bins[b].contents, n, i)
                          => /\ last'.ret = TRUE
                             /\ bins'[b].contents = RemoveAt(bins[b].contents, i)
                             /\ \A o \in DOMAIN bins \ {b} : bins'[o] = bins[o]]_vars

\* C27 amended: the first stored record whose name equals name
\* case-sensitively is removed and true is returned; it is the only record
\* to leave when no item of the bin has expired, and otherwise the expiry
\* sweep that follows removes expired records as well (nothing is added);
\* when the bin is unknown or no stored name matches, false is returned and
\* every bin is unchanged.
C27_RemoveFirstMatchThenSweep ==
    [][last'.op = "remove_vegetable_from_bin" =>
        \A b \in BinIds, n \in QueryNames :
            remove_vegetable_from_bin(b, n)
            => /\ RemoveFailureUnchanged(b, n)
               /\ b \in DOMAIN bins
                    => \A i \in Positions(bins[b].contents) :
                          FirstMatchAt(bins[b].contents, n, i)
                          => /\ last'.ret = TRUE
                             /\ NoExpired(bins[b].contents)
                                  => bins'[b].contents
                                        = RemoveAt(bins[b].contents, i)
                             /\ RecordsAmong(bins'[b].contents,
                                             RemoveAt(bins[b].contents, i))
                             /\ \A o \in DOMAIN bins \ {b} : bins'[o] = bins[o]]_vars

\* C27 witness: a removal by name has succeeded and has left one record,
\* not expired, in the bin.
C27_Witness ==
    /\ last.op = "remove_vegetable_from_bin"
    /\ last.ret = TRUE
    /\ \E b \in DOMAIN bins :
          /\ Len(bins[b].contents) = 1
          /\ NoExpired(bins[b].contents)

\* C28: add_vegetable_to_bin with a bin id that is not registered returns
\* failure, creates no bin and leaves the registry and every bin unchanged.
C28_AddToUnknownBin ==
    [][last'.op = "add_vegetable_to_bin" =>
        \A b \in BinIds \ DOMAIN bins :
           \A n \in Names, q \in Quantities, e \in ExpiryDates :
              add_vegetable_to_bin(b, Vegetable(n, q, e))
              => /\ Returned(last')
                 /\ last'.ret = FALSE
                 /\ DOMAIN bins' = DOMAIN bins
                 /\ bins' = bins]_vars

\* C28 witness: an add to an unregistered bin has been refused while a
\* registered bin holds stock.
C28_Witness ==
    /\ last.op = "add_vegetable_to_bin"
    /\ Returned(last)
    /\ last.ret = FALSE
    /\ last.alerts = <<T_ERROR>>
    /\ \E b \in DOMAIN bins : Len(bins[b].contents) > 0

\* exactly one box, of this title, went to the alert sink and the call failed
RejectedWithOneAlert(call, title) ==
    /\ Returned(call)
    /\ call.ret = FALSE
    /\ call.alerts = <<title>>

\* C29: create_bin and update_bin_conditions with unsafe conditions and an
\* add_vegetable_to_bin that would exceed the capacity each dispatch exactly
\* one alert and return failure, and no safety or capacity alert is
\* dispatched by a call of these that succeeds.
C29_RejectionAlerts ==
    [][/\ last'.op = "create_bin" =>
            \A b \in BinIds, c \in Capacities, t \in RegistryTemps,
               h \in RegistryHumidities :
                (~(t <= 15 /\ h <= 98) /\ create_bin(b, c, t, h))
                => RejectedWithOneAlert(last', T_SAFETY)
       /\ last'.op = "update_bin_conditions" =>
            \A b \in DOMAIN bins : \A t \in Optional(RegistryTemps),
               h \in Optional(RegistryHumidities) :
                ( /\ ~( /\ Prospective(t, bins[b].current_temperature) <= 15
                        /\ Prospective(h, bins[b].current_humidity) <= 98 )
                  /\ update_bin_conditions(b, t, h) )
                => RejectedWithOneAlert(last', T_SAFETY)
       /\ last'.op = "add_vegetable_to_bin" =>
            \A b \in DOMAIN bins : \A v \in RegistryItems :
                ( /\ SumQuantity(bins[b].contents) + v.quantity > bins[b].max_capacity
                  /\ add_vegetable_to_bin(b, v) )
                => RejectedWithOneAlert(last', T_FULL)
       /\ ( /\ last'.op \in {"create_bin", "update_bin_conditions",
                              "add_vegetable_to_bin"}
            /\ Returned(last')
            /\ last'.ret = TRUE )
          => \A i \in Positions(last'.alerts) :
                last'.alerts[i] \notin {T_SAFETY, T_FULL}]_vars

\* C30: a bin id that is registered stays registered, with the same
\* max_capacity, across every step of the engine.
C30_BinsPermanent ==
    [][\A b \in DOMAIN bins :
          /\ b \in DOMAIN bins'
          /\ bins'[b].max_capacity = bins[b].max_capacity]_vars

\* C30 witness: a day after both bins were created, and after stock was
\* added to one and removed from it again, both are still registered.
C30_Witness ==
    /\ DOMAIN bins = BinIds
    /\ today > 0
    /\ last.op = "remove_vegetable_from_bin"
    /\ last.ret = TRUE

\* the stored username-to-password mapping of a file
StoredUsers(file) == IF file = None THEN <<>> ELSE json_load(file[1])

\* C31: add_user(username, password) returns false and leaves the stored
\* mapping unchanged when the username is already registered; otherwise it
\* returns true, afterwards check_credentials(username, p) is true exactly
\* for p equal to the registered password, and every other user's entry is
\* unchanged.
C31_AddUser ==
    [][last'.op = "add_user" =>
        \A u \in Usernames, p \in Passwords :
            add_user(u, p)
            => IF u \in DOMAIN StoredUsers(users_file)
               THEN /\ last'.ret = FALSE
                    /\ StoredUsers(users_file') = StoredUsers(users_file)
               ELSE /\ last'.ret = TRUE
                    /\ \A q \in Passwords :
                          credentials_match(users_file', u, q) <=> (q = p)
                    /\ DOMAIN StoredUsers(users_file')
                          = DOMAIN StoredUsers(users_file) \cup {u}
                    /\ \A o \in DOMAIN StoredUsers(users_file) :
                          StoredUsers(users_file')[o] = StoredUsers(users_file)[o]]_vars

\* C31 witness: with two users registered under different passwords, an
\* add_user for a registered name has just been refused and the first
\* user's password still opens the account.
C31_Witness ==
    /\ last.op = "add_user"
    /\ last.ret = FALSE
    /\ credentials_match(users_file, "alice", "pw1")
    /\ credentials_match(users_file, "bob", "pw2")

\* C32: in every reachable state every registered bin's current temperature
\* is at most 15 and its current humidity at most 98, and
\* get_all_safety_violations reports no violating bin.
C32_ConditionsWithinThresholds ==
    /\ \A b \in DOMAIN bins :
          /\ bins[b].current_temperature <= MAX_SAFE_TEMP
          /\ bins[b].current_humidity <= MAX_SAFE_HUMIDITY
          /\ HasAttr(bins[b], "temperature") => bins[b].temperature <= MAX_SAFE_TEMP
          /\ HasAttr(bins[b], "humidity") => bins[b].humidity <= MAX_SAFE_HUMIDITY
    /\ get_all_safety_violations.violations = {}

\* C32 witness: both bins are registered, one of them exactly at the two
\* thresholds, and update_bin_conditions has just been called.
C32_Witness ==
    /\ DOMAIN bins = BinIds
    /\ \E b \in DOMAIN bins :
          /\ bins[b].current_temperature = MAX_SAFE_TEMP
          /\ bins[b].current_humidity = MAX_SAFE_HUMIDITY
    /\ last.op = "update_bin_conditions"

\* C33: add_vegetable_to_bin of an item that is already expired and fits
\* the capacity returns success, the bin does not hold that item when the
\* call returns, and every item held before the call with
\* days_until_expiry > 0 is still there with its quantity (stated for bins
\* whose capacities and quantities are valid).
C33_ExpiredAddIsSwept ==
    [][(ValidStock /\ last'.op = "add_vegetable_to_bin") =>
        \A b \in DOMAIN bins : \A n \in Names, q \in Quantities, e \in ExpiryDates :
            ( /\ q >= 1
              /\ days_until_expiry(Vegetable(n, q, e)) <= 0
              /\ SumQuantity(bins[b].contents) + q <= bins[b].max_capacity
              /\ add_vegetable_to_bin(b, Vegetable(n, q, e)) )
            => /\ last'.ret = TRUE
               /\ \A i \in Positions(bins'[b].contents) :
                     bins'[b].contents[i] # Vegetable(n, q, e)
               /\ RecordsAmong(SelectSeq(bins[b].contents,
                                         LAMBDA v : days_until_expiry(v) > 0),
                               bins'[b].contents)]_vars

\* no bin holds more item records than units
RecordsWithinUnits ==
    \A b \in DOMAIN bins : Len(bins[b].contents) <= SumQuantity(bins[b].contents)

\* C34: when every item offered has a quantity of at least 1, no bin ever
\* holds more records than units, and an add that passes the engine's
\* by-quantity check also passes StorageBin.add_vegetable's record-count
\* check and succeeds.
C34_RecordCheckNeverRejects ==
    [][/\ RecordsWithinUnits
       /\ RecordsWithinUnits'
       /\ last'.op = "add_vegetable_to_bin" =>
            \A b \in DOMAIN bins :
               \A n \in Names, q \in ValidQuantities, e \in ExpiryDates :
                ( /\ ~would_exceed_capacity(get_current_capacity(b),
                                            Vegetable(n, q, e), bins[b])
                  /\ add_vegetable_to_bin(b, Vegetable(n, q, e)) )
                => /\ Len(bins[b].contents) < bins[b].max_capacity
                   /\ add_vegetable(bins[b], Vegetable(n, q, e)).ok
                   /\ last'.ret = TRUE]_vars

\* C34 witness: an add has just succeeded into a bin that already held a
\* record, and the bin now holds as many records as units.
C34_Witness ==
    /\ last.op = "add_vegetable_to_bin"
    /\ last.ret = TRUE
    /\ \E b \in DOMAIN bins :
          /\ Len(bins[b].contents) = 2
          /\ SumQuantity(bins[b].contents) = 2

\* C35: in any bin state, also after the date has advanced with no call in
\* between, get_bin_contents(bin_id) returns a permutation of the bin's
\* stored items that is non-decreasing by days_until_expiry, and the call
\* changes no stored item.
C35_ContentsSortedPermutation ==
    [][last'.op = "get_bin_contents" =>
        /\ bins' = bins
        /\ \A b \in DOMAIN bins :
              get_bin_contents(b)
              => /\ BagOfSeq(last'.ret.items) = BagOfSeq(bins[b].contents)
                 /\ IsSortedByExpiry(last'.ret.items)]_vars

\* C35 witness: the date has advanced, the bin stores two items with the
\* later-expiring one first, and get_bin_contents has returned them in the
\* other order.
C35_Witness ==
    /\ last.op = "get_bin_contents"
    /\ today > 0
    /\ \E b \in DOMAIN bins :
          /\ Len(bins[b].contents) = 2
          /\ days_until_expiry(bins[b].contents[1])
                > days_until_expiry(bins[b].contents[2])
          /\ last.ret.items = <<bins[b].contents[2], bins[b].contents[1]>>

====
